---- MODULE Spec2Model ----
(***************************************************************************)
(* A model of export_issues.py: the paginated fetcher load_all_resource,   *)
(* the aggregator get_json, download_embedded_images, build_markdown and   *)
(* the __main__ entry point.                                               *)
(*                                                                         *)
(* Four specifications share the module:                                   *)
(*   SpecFetch   one call of load_all_resource, recursion and all          *)
(*   Spec        a whole run of __main__, one step per HTTP request        *)
(*   SpecImages  download_embedded_images, file names computed by base64   *)
(*   SpecRender  build_markdown, one step per loop iteration               *)
(***************************************************************************)
EXTENDS Integers, Sequences, FiniteSets, TLC

VARIABLES
    \* ---- load_all_resource (SpecFetch)
    fpc,        \* "off" | "call" | "unwind" | "returned" | "raised"
    frames,     \* the Python call stack: one record per active call
    nextUrl,    \* the url argument of the call about to issue its GET
    fRequests,  \* the urls requested with requests.get, in order
    served,     \* the payloads the server answered with, in order
    result,     \* the value returned by the outermost call
    \* ---- __main__ and get_json (Spec)
    pc,         \* the statement of __main__ / get_json about to run
    ISSUE,      \* line 31: 0 stands for None, else the single issue's number
    data,       \* get_json's list of issue records
    i,          \* get_json's loop over data: index of the current issue
    j,          \* index of the current comment or file of issue i
    page,       \* page of the running load_all_resource call to request next
    acc,        \* the items that call has received so far
    requests,   \* the load_all_resource calls and image downloads made, in order
    last,       \* the most recent GET: call and page
    failed,     \* a non-success HTTP response has been received
    abortedIn,  \* "none", or the function an exception escaped from
    imgs,       \* image files written by download_embedded_images
    jsonFile,   \* <name>.json exists in OUTPUT_FOLDER
    mdFile,     \* <name>.md exists in OUTPUT_FOLDER
    \* ---- download_embedded_images (SpecImages)
    ipc,        \* "off" | "loop" | "done" | "error"
    seen,       \* the (subdomain, path) matches the loop has been through
    count,      \* how many matches the loop has been through
    folder,     \* the names of the files written to the folder
    \* ---- build_markdown (SpecRender)
    rpc,        \* "off" | "title" | "toc" | "issue" | "file" | "line" | "feed"
                \* | "item" | "done" | "error"
    issues,     \* the data argument: the aggregated issue records
    lines,      \* the list of output lines
    ri,         \* position in sorted(data) of the toc loop or the issue loop
    fi,         \* index of the current file of the issue
    ln,         \* number of the current line of the file
    codeblock,  \* the opening line of the open code block, "" for None
    anchored,   \* the comments dict of the file: line number -> comment indices
    feedItems,  \* the sorted activity list, as indices into the merged list
    fk,         \* position in feedItems
    is_first_item

fetchVars == <<fpc, frames, nextUrl, fRequests, served, result>>
runVars == <<pc, ISSUE, data, i, j, page, acc, requests, last, failed, abortedIn,
             imgs, jsonFile, mdFile>>

imageVars == <<ipc, seen, count, folder>>
renderVars == <<rpc, issues, lines, ri, fi, ln, codeblock, anchored, feedItems, fk,
                is_first_item>>

vars == <<fetchVars, runVars, imageVars, renderVars>>

\* ------------------------------------------------------------------ bounds
MaxPages == 3
MaxItems == 1
MaxRunPages == 2
MaxIssues == 2
MaxComments == 2
MaxFiles == 1
MaxRunImages == 1
MaxMatches == 2
MaxPathLen == 2
MaxTocIssues == 2
MaxLines == 2
MaxReviewComments == 2
MaxFeed == 2

\* ----------------------------------------------------------------- helpers
SeqsUpTo(S, n) == UNION {[1..k -> S] : k \in 0..n}

Max(a, b) == IF a >= b THEN a ELSE b

RECURSIVE Concat(_)
Concat(ss) == IF ss = <<>> THEN <<>> ELSE Head(ss) \o Concat(Tail(ss))

\* The elements a JSON list payload is made of.
Items == {"a", "b"}

\* The rel names of a Link header.
Rels == {"next", "prev"}

\* Response headers: no 'link' key, or a Link header with some rels.
Headers ==
    {[link |-> FALSE, rels |-> {}]} \cup {[link |-> TRUE, rels |-> R] : R \in SUBSET Rels}

\* Lines 59-62: 'link' in r.headers, and 'next' among the parsed rels.
HasNextBroken(h) == h.link
HasNext(h) == h.link /\ "next" \in h.rels

\* Line 63: data.extend(rest)
ExtendBroken(d, rest) == rest \o d
Extend(d, rest) == d \o rest

\* ------------------------------------------------------------ idle parts
NoRequest == [kind |-> "none", issue |-> 0, sub |-> 0, page |-> 0]

IdleFetch ==
    /\ fpc = "off"
    /\ frames = <<>>
    /\ nextUrl = 0
    /\ fRequests = <<>>
    /\ served = <<>>
    /\ result = <<>>

IdleRun ==
    /\ pc = "off"
    /\ data = <<>>
    /\ i = 0
    /\ j = 0
    /\ page = 0
    /\ acc = <<>>
    /\ requests = <<>>
    /\ last = NoRequest
    /\ failed = FALSE
    /\ abortedIn = "none"
    /\ imgs = 0
    /\ jsonFile = FALSE
    /\ mdFile = FALSE

IdleImages ==
    /\ ipc = "off"
    /\ seen = {}
    /\ count = 0
    /\ folder = {}

IdleRender ==
    /\ rpc = "off"
    /\ issues = <<>>
    /\ lines = <<>>
    /\ ri = 0
    /\ fi = 0
    /\ ln = 0
    /\ codeblock = ""
    /\ anchored = <<>>
    /\ feedItems = <<>>
    /\ fk = 0
    /\ is_first_item = TRUE

\* ------------------------------------------------- load_all_resource, alone
\* A url of the chain is its page number; page p's 'next' link names page p+1.
InitFetch ==
    /\ fpc = "call"
    /\ frames = <<>>
    /\ nextUrl = 1
    /\ fRequests = <<>>
    /\ served = <<>>
    /\ result = <<>>
    /\ IdleRun
    /\ ISSUE = 0
    /\ IdleImages
    /\ IdleRender

\* Lines 53-56: the GET is answered with a non-success status; the exception
\* leaves every active call.
LoadRaise ==
    /\ fpc = "call"
    /\ fRequests' = Append(fRequests, nextUrl)
    /\ frames' = <<>>
    /\ fpc' = "raised"
    /\ UNCHANGED <<nextUrl, served, result, runVars, imageVars, renderVars>>

\* Lines 53-63: the GET succeeds; data = r.json(); with a 'next' link the call
\* recurses before it returns.
LoadGet ==
    /\ fpc = "call"
    /\ \E payload \in SeqsUpTo(Items, MaxItems), h \in Headers :
        /\ HasNext(h) => nextUrl < MaxPages
        /\ fRequests' = Append(fRequests, nextUrl)
        /\ served' = Append(served, payload)
        /\ frames' = Append(frames, [url |-> nextUrl, data |-> payload])
        /\ IF HasNext(h)
             THEN nextUrl' = nextUrl + 1 /\ fpc' = "call"
             ELSE nextUrl' = nextUrl /\ fpc' = "unwind"
    /\ UNCHANGED <<result, runVars, imageVars, renderVars>>

\* Lines 63-64: the innermost call returns its data; the caller extends its own.
LoadReturn ==
    /\ fpc = "unwind"
    /\ LET n == Len(frames)
           top == frames[n]
       IN IF n = 1
            THEN /\ result' = top.data
                 /\ frames' = <<>>
                 /\ fpc' = "returned"
            ELSE /\ frames' = [SubSeq(frames, 1, n - 1) EXCEPT
                                ![n - 1].data = Extend(frames[n - 1].data, top.data)]
                 /\ fpc' = "unwind"
                 /\ UNCHANGED result
    /\ UNCHANGED <<nextUrl, fRequests, served, runVars, imageVars, renderVars>>

NextFetch ==
    \/ LoadRaise
    \/ LoadGet
    \/ LoadReturn

SpecFetch == InitFetch /\ [][NextFetch]_vars

\* ---------------------------------------------------- __main__ and get_json
\* HTTP statuses the servers answer with.
Statuses == {200, 404}

\* Lines 54 and 124: r.ok
StatusOkAlways(status) == TRUE
StatusOk(status) == status < 400

\* The keys get_json adds to an issue record (lines 83-113).
Fields == {"reactions", "comments", "events", "reviews", "review_comments", "files"}

\* An issue as the list endpoint returns it: 'pull_request' present or not, and
\* 'title' present or not (a record the renderer cannot look up).
BaseIssue(n, pr, title) ==
    [number |-> n, pull_request |-> pr, title |-> title, comments |-> <<>>,
     detailed |-> {}, files |-> 0, contents |-> 0, got |-> {}]

\* A comment: its 'reactions' object present or not, and reactions.total_count.
Comments ==
    {[has_reactions |-> TRUE, total_count |-> c] : c \in 0..1}
        \cup {[has_reactions |-> FALSE, total_count |-> 0]}

Key(kind, issue, sub) == [kind |-> kind, issue |-> issue, sub |-> sub]

TotalComments == LET RECURSIVE Sum(_)
                     Sum(k) == IF k = 0 THEN 0 ELSE Len(data[k].comments) + Sum(k - 1)
                 IN Sum(Len(data))

TotalFiles == LET RECURSIVE Sum(_)
                  Sum(k) == IF k = 0 THEN 0 ELSE data[k].files + Sum(k - 1)
              IN Sum(Len(data))

\* Lines 276-292: the order of __main__'s steps after get_json.
MainStepJsonFirst(step) ==
    CASE step = "get_json" -> "save_json"
      [] step = "save_json" -> "images"
      [] step = "images" -> "build_markdown"
      [] step = "build_markdown" -> "save_md"
      [] step = "save_md" -> "done"
MainStep(step) ==
    CASE step = "get_json" -> "images"
      [] step = "images" -> "save_json"
      [] step = "save_json" -> "build_markdown"
      [] step = "build_markdown" -> "save_md"
      [] step = "save_md" -> "done"

\* An uncaught exception: nothing in the program catches it (no try anywhere).
Raise(where) ==
    /\ pc' = "error"
    /\ abortedIn' = where

\* Line 89: comment['reactions']['total_count'] > 0
NeedsDetailAll(c) == TRUE
NeedsDetail(c) == c.total_count > 0

\* Lines 88-89: the next comment, from index k on, at which the loop stops to
\* fetch (or to fail on a missing 'reactions'); 0 when the loop runs out.
RECURSIVE NextComment(_, _)
NextComment(cs, k) ==
    IF k > Len(cs) THEN 0
    ELSE IF ~cs[k].has_reactions \/ NeedsDetail(cs[k]) THEN k
    ELSE NextComment(cs, k + 1)

\* Line 81: the for loop moves to the next issue, or get_json returns.
ToNextIssue(d) ==
    IF i < Len(d)
      THEN /\ i' = i + 1
           /\ j' = 0
           /\ pc' = "reactions"
           /\ abortedIn' = abortedIn
      ELSE /\ i' = i
           /\ j' = 0
           /\ pc' = MainStep("get_json")
           /\ abortedIn' = abortedIn

\* Lines 88-93: the comment loop from index k on, then the events fetch.
ToNextComment(d, k) ==
    LET n == NextComment(d[i].comments, k)
    IN IF n = 0
         THEN /\ pc' = "events"
              /\ j' = 0
              /\ abortedIn' = abortedIn
         ELSE IF ~d[i].comments[n].has_reactions
           THEN /\ Raise("get_json")
                /\ j' = n
           ELSE /\ pc' = "comment_reactions"
                /\ j' = n
                /\ abortedIn' = abortedIn

\* The state line 278 leaves: the folder exists, nothing fetched yet.
Init ==
    /\ IdleFetch
    /\ IdleImages
    /\ IdleRender
    /\ pc = "base"
    /\ ISSUE \in {0, 1}
    /\ data = <<>>
    /\ i = 0
    /\ j = 0
    /\ page = 1
    /\ acc = <<>>
    /\ requests = <<>>
    /\ last = NoRequest
    /\ failed = FALSE
    /\ abortedIn = "none"
    /\ imgs = 0
    /\ jsonFile = FALSE
    /\ mdFile = FALSE

\* Pages of the issue list: the n-th issue listed carries number n.
IssuePages ==
    IF ISSUE # 0
      THEN {<<BaseIssue(ISSUE, pr, t)>> : pr \in BOOLEAN, t \in BOOLEAN}
      ELSE UNION {
             {[k \in 1..n |-> BaseIssue(Len(acc) + k, f[k][1], f[k][2])] :
                 f \in [1..n -> BOOLEAN \X BOOLEAN]} :
             n \in 0..(MaxIssues - Len(acc))}

\* Lines 80-82: the loop over data starts, or get_json returns an empty list
BaseDone(list) ==
    /\ data' = list
    /\ IF list = <<>>
         THEN /\ i' = 0
              /\ j' = 0
              /\ pc' = MainStep("get_json")
              /\ abortedIn' = abortedIn
         ELSE /\ i' = 1
              /\ j' = 0
              /\ pc' = "reactions"
              /\ abortedIn' = abortedIn

\* Line 83: issue['reactions'] = ...
ReactionsDone(list) ==
    /\ data' = [data EXCEPT ![i].got = @ \cup {"reactions"}]
    /\ pc' = "comments"
    /\ UNCHANGED <<i, j, abortedIn>>

\* Pages of a comment list.
CommentPages == SeqsUpTo(Comments, MaxComments - TotalComments - Len(acc))

\* Lines 86-88: issue['comments'] = ..., then the loop over the comments
CommentsDone(list) ==
    LET d == [data EXCEPT ![i].comments = list, ![i].got = @ \cup {"comments"}]
    IN /\ data' = d
       /\ i' = i
       /\ ToNextComment(d, 1)

\* Lines 90-92: comment['reactions_detailed'] = ..., then the next comment
CommentReactionsDone(list) ==
    LET d == [data EXCEPT ![i].detailed = @ \cup {j}]
    IN /\ data' = d
       /\ i' = i
       /\ ToNextComment(d, j + 1)

\* Lines 93-96: issue['events'] = ..., then the pull-request part or the next issue
EventsDone(list) ==
    LET d == [data EXCEPT ![i].got = @ \cup {"events"}]
    IN /\ data' = d
       /\ IF d[i].pull_request
            THEN /\ pc' = "reviews"
                 /\ UNCHANGED <<i, j, abortedIn>>
            ELSE ToNextIssue(d)

\* Lines 97-103: issue['reviews'] = ...
ReviewsDone(list) ==
    /\ data' = [data EXCEPT ![i].got = @ \cup {"reviews"}]
    /\ pc' = "review_comments"
    /\ UNCHANGED <<i, j, abortedIn>>

\* Lines 104-106: issue['review_comments'] = ...
ReviewCommentsDone(list) ==
    /\ data' = [data EXCEPT ![i].got = @ \cup {"review_comments"}]
    /\ pc' = "files"
    /\ UNCHANGED <<i, j, abortedIn>>

\* Pages of a file list.
FilePages == SeqsUpTo({"file"}, MaxFiles - TotalFiles - Len(acc))

\* Lines 107-110: issue['files'] = ..., then the loop over the files
FilesDone(list) ==
    LET d == [data EXCEPT ![i].files = Len(list), ![i].got = @ \cup {"files"}]
    IN /\ data' = d
       /\ IF list = <<>>
            THEN ToNextIssue(d)
            ELSE /\ pc' = "contents"
                 /\ j' = 1
                 /\ UNCHANGED <<i, abortedIn>>

\* Lines 111-113: file_['contents'] = ..., then the next file or the next issue
ContentsDone(list) ==
    LET d == [data EXCEPT ![i].contents = j]
    IN /\ data' = d
       /\ IF j < d[i].files
            THEN /\ j' = j + 1
                 /\ UNCHANGED <<pc, i, abortedIn>>
            ELSE ToNextIssue(d)

\* The statement of get_json a call returns to, by what was fetched.
Continue(kind, list) ==
    CASE kind = "issues" -> BaseDone(list)
      [] kind = "reactions" -> ReactionsDone(list)
      [] kind = "comments" -> CommentsDone(list)
      [] kind = "comment_reactions" -> CommentReactionsDone(list)
      [] kind = "events" -> EventsDone(list)
      [] kind = "reviews" -> ReviewsDone(list)
      [] kind = "review_comments" -> ReviewCommentsDone(list)
      [] kind = "files" -> FilesDone(list)
      [] kind = "contents" -> ContentsDone(list)

\* Lines 48-64, one GET of the running load_all_resource call: the request,
\* then either the exception, the recursion to the next page, or the return of
\* the accumulated list, with which the caller continues.
Get(kind, sub, Payloads, paginated) ==
    /\ last' = [kind |-> kind, issue |-> i, sub |-> sub, page |-> page]
    /\ requests' = IF page = 1 THEN Append(requests, Key(kind, i, sub)) ELSE requests
    /\ \E status \in Statuses :
        /\ failed' = (failed \/ status # 200)
        /\ IF ~StatusOk(status)
             THEN /\ Raise("get_json")
                  /\ UNCHANGED <<data, i, j, page, acc>>
             ELSE \E payload \in Payloads, h \in Headers :
                    /\ HasNext(h) => paginated /\ page < MaxRunPages
                    /\ IF HasNext(h)
                         THEN /\ acc' = Extend(acc, payload)
                              /\ page' = page + 1
                              /\ UNCHANGED <<pc, data, i, j, abortedIn>>
                         ELSE /\ acc' = <<>>
                              /\ page' = 1
                              /\ Continue(kind, Extend(acc, payload))
    /\ UNCHANGED <<ISSUE, imgs, jsonFile, mdFile, fetchVars, imageVars, renderVars>>

\* Lines 72-79: the single issue, or the list of all issues
FetchBase ==
    /\ pc = "base"
    /\ Get("issues", 0, IssuePages, ISSUE = 0)

\* Lines 83-85
FetchReactions ==
    /\ pc = "reactions"
    /\ Get("reactions", 0, {<<>>}, TRUE)

\* Lines 86-89
FetchComments ==
    /\ pc = "comments"
    /\ Get("comments", 0, CommentPages, TRUE)

\* Lines 88-92
FetchCommentReactions ==
    /\ pc = "comment_reactions"
    /\ Get("comment_reactions", j, {<<>>}, TRUE)

\* Lines 93-96
FetchEvents ==
    /\ pc = "events"
    /\ Get("events", 0, {<<>>}, TRUE)

\* Lines 97-103
FetchReviews ==
    /\ pc = "reviews"
    /\ Get("reviews", 0, {<<>>}, TRUE)

\* Lines 104-106
FetchReviewComments ==
    /\ pc = "review_comments"
    /\ Get("review_comments", 0, {<<>>}, TRUE)

\* Lines 107-110
FetchFiles ==
    /\ pc = "files"
    /\ Get("files", 0, FilePages, TRUE)

\* Lines 110-113: the content of one changed file (a JSON object, one page)
FetchContents ==
    /\ pc = "contents"
    /\ Get("contents", j, {<<>>}, FALSE)

\* Lines 121-131, one iteration of the loop in a run: the image is requested
\* and, on success, written to the folder.
DownloadImage ==
    /\ pc = "images"
    /\ imgs < MaxRunImages
    /\ last' = [kind |-> "image", issue |-> 0, sub |-> imgs + 1, page |-> 1]
    /\ requests' = Append(requests, Key("image", 0, imgs + 1))
    /\ \E status \in Statuses :
        /\ failed' = (failed \/ status # 200)
        /\ IF ~StatusOk(status)
             THEN /\ Raise("download_embedded_images")
                  /\ imgs' = imgs
             ELSE /\ imgs' = imgs + 1
                  /\ UNCHANGED <<pc, abortedIn>>
    /\ UNCHANGED <<ISSUE, data, i, j, page, acc, jsonFile, mdFile, fetchVars, imageVars, renderVars>>

\* Line 121: no match is left; download_embedded_images returns.
ImagesDone ==
    /\ pc = "images"
    /\ pc' = MainStep("images")
    /\ UNCHANGED <<ISSUE, data, i, j, page, acc, requests, last, failed, abortedIn,
                   imgs, jsonFile, mdFile, fetchVars, imageVars, renderVars>>

\* Lines 283-288
SaveJson ==
    /\ pc = "save_json"
    /\ jsonFile' = TRUE
    /\ pc' = MainStep("save_json")
    /\ UNCHANGED <<ISSUE, data, i, j, page, acc, requests, last, failed, abortedIn,
                   imgs, mdFile, fetchVars, imageVars, renderVars>>

\* build_markdown's lookups that raise KeyError: issue['title'] (lines 173, 179)
\* and issue['reviews'] (line 240), a key only line 97 adds.
RenderRaises(d) ==
    \E k \in 1..Len(d) : ~d[k].title \/ "reviews" \notin d[k].got

\* Line 290
BuildMarkdown ==
    /\ pc = "build_markdown"
    /\ IF RenderRaises(data)
         THEN Raise("build_markdown")
         ELSE /\ pc' = MainStep("build_markdown")
              /\ UNCHANGED abortedIn
    /\ UNCHANGED <<ISSUE, data, i, j, page, acc, requests, last, failed,
                   imgs, jsonFile, mdFile, fetchVars, imageVars, renderVars>>

\* Lines 291-292
SaveMarkdown ==
    /\ pc = "save_md"
    /\ mdFile' = TRUE
    /\ pc' = MainStep("save_md")
    /\ UNCHANGED <<ISSUE, data, i, j, page, acc, requests, last, failed, abortedIn,
                   imgs, jsonFile, fetchVars, imageVars, renderVars>>

Next ==
    \/ FetchBase
    \/ FetchReactions
    \/ FetchComments
    \/ FetchCommentReactions
    \/ FetchEvents
    \/ FetchReviews
    \/ FetchReviewComments
    \/ FetchFiles
    \/ FetchContents
    \/ DownloadImage
    \/ ImagesDone
    \/ SaveJson
    \/ BuildMarkdown
    \/ SaveMarkdown

Spec == Init /\ [][Next]_vars


\* ------------------------------------------------- download_embedded_images
\* Text is a sequence of ASCII codes: 46 '.', 47 '/', 61 '=', 97 'a'.
PathChars == {46, 47, 97}

\* Line 121: the two subdomains the pattern names.
Subdomains == {"cloud", "user-images"}

\* What the pattern's second group can capture here, the empty path included.
Paths == SeqsUpTo(PathChars, MaxPathLen)

\* base64's alphabet: the character of a 6-bit value.
B64Char(n) ==
    IF n < 26 THEN 65 + n
    ELSE IF n < 52 THEN 97 + (n - 26)
    ELSE IF n < 62 THEN 48 + (n - 52)
    ELSE IF n = 62 THEN 43
    ELSE 47

\* Line 126: base64.b64encode(bytes), three bytes to four characters, '=' padded.
RECURSIVE B64Encode(_)
B64Encode(bs) ==
    IF bs = <<>> THEN <<>>
    ELSE LET n == Len(bs)
             b2 == IF n >= 2 THEN bs[2] ELSE 0
             b3 == IF n >= 3 THEN bs[3] ELSE 0
             q == bs[1] * 65536 + b2 * 256 + b3
         IN <<B64Char(q \div 262144),
              B64Char((q \div 4096) % 64),
              IF n >= 2 THEN B64Char((q \div 64) % 64) ELSE 61,
              IF n >= 3 THEN B64Char(q % 64) ELSE 61>>
                \o (IF n > 3 THEN B64Encode(SubSeq(bs, 4, n)) ELSE <<>>)

\* text.rsplit(ch, 1)[-1]: what follows the last ch, or all of text without one.
RECURSIVE AfterLast(_, _)
AfterLast(text, ch) ==
    IF \A k \in 1..Len(text) : text[k] # ch THEN text
    ELSE AfterLast(Tail(text), ch)

\* Line 126: the file's name
FilenameOfBasename(path) == B64Encode(AfterLast(path, 47)) \o <<46>> \o AfterLast(path, 46)
Filename(path) == B64Encode(path) \o <<46>> \o AfterLast(path, 46)

\* Line 127: open(os.path.join(folder, filename), 'wb') raises when the name
\* has a '/' (a directory nothing created) or is '.' (the folder itself).
OpenRaises(name) ==
    \/ \E k \in 1..Len(name) : name[k] = 47
    \/ name = <<46>>

InitImages ==
    /\ IdleFetch
    /\ IdleRun
    /\ ISSUE = 0
    /\ IdleRender
    /\ ipc = "loop"
    /\ seen = {}
    /\ count = 0
    /\ folder = {}

\* Lines 121-131, one iteration: the next match of the pattern in json_str is
\* requested and written.
ImageLoop ==
    /\ ipc = "loop"
    /\ count < MaxMatches
    /\ \E subdomain \in Subdomains, path \in Paths, status \in Statuses :
        /\ seen' = seen \cup {<<subdomain, path>>}
        /\ count' = count + 1
        /\ IF ~StatusOk(status) \/ OpenRaises(Filename(path))
             THEN /\ ipc' = "error"
                  /\ folder' = folder
             ELSE /\ ipc' = "loop"
                  /\ folder' = folder \cup {Filename(path)}
    /\ UNCHANGED <<fetchVars, runVars, renderVars>>

\* Line 121: the matches are exhausted; the function returns.
ImageLoopEnd ==
    /\ ipc = "loop"
    /\ ipc' = "done"
    /\ UNCHANGED <<seen, count, folder, fetchVars, runVars, renderVars>>

NextImages ==
    \/ ImageLoop
    \/ ImageLoopEnd

SpecImages == InitImages /\ [][NextImages]_vars

\* ------------------------------------------------------------ build_markdown
\* An output line: its kind t, its text s where the text matters, and the
\* values n, m, x it was formatted from.
Line(t, s, n, m) == [t |-> t, s |-> s, n |-> n, m |-> m, x |-> ""]

\* Lines 133-144: mkdown_h at level 2 writes the anchor only 'if link'; 0 stands
\* for both None and no anchor.
HeaderLine(number, title, state, link) ==
    [t |-> "h2", s |-> title, n |-> number, m |-> link, x |-> state]

\* Lines 176-178: link = issue['number'] when ISSUE is None
IssueLinkNone(number) == 0
IssueLink(number) == IF ISSUE = 0 THEN number ELSE 0

\* The texts a line of a changed file can have. <fence> is written for the three
\* backticks of a Markdown fence; the last two texts start with them.
LineTexts == {"text", "<fence>", "<fence>py"}

\* Line 211: the line starts with three backticks
StartsWithFence(text) == text \in {"<fence>", "<fence>py"}

\* sorted(..., key=...): Python's sort is stable, so an element goes after
\* every element already placed whose key is not greater.
InsertKeyedBeforeTies(sorted, x) ==
    LET pos == Cardinality({k \in 1..Len(sorted) : sorted[k].key < x.key})
    IN SubSeq(sorted, 1, pos) \o <<x>> \o SubSeq(sorted, pos + 1, Len(sorted))
InsertKeyed(sorted, x) ==
    LET pos == Cardinality({k \in 1..Len(sorted) : sorted[k].key <= x.key})
    IN SubSeq(sorted, 1, pos) \o <<x>> \o SubSeq(sorted, pos + 1, Len(sorted))

RECURSIVE SortKeyed(_)
SortKeyed(seq) ==
    IF seq = <<>> THEN <<>>
    ELSE InsertKeyed(SortKeyed(SubSeq(seq, 1, Len(seq) - 1)), seq[Len(seq)])

\* Lines 172 and 175: sorted(data, key=lambda x: x['number'])
SortedIssues ==
    LET keyed == SortKeyed([k \in 1..Len(issues) |-> [key |-> issues[k].number, val |-> k]])
    IN [k \in 1..Len(issues) |-> issues[keyed[k].val]]

\* Line 240: issue['comments'] + issue['events'] + issue['reviews']
Merged(issue) == issue.comments \o issue.events \o issue.reviews

\* Line 240: sorted(merged, key=lambda x: x['created_at']), as indices into merged
FeedOrder(issue) ==
    LET m == Merged(issue)
        keyed == SortKeyed([k \in 1..Len(m) |-> [key |-> m[k].created_at, val |-> k]])
    IN [k \in 1..Len(m) |-> keyed[k].val]

\* Lines 198-205: the comments dict of a file: for every line that has one, the
\* review comments on this path and that line, in review_comments order.
CommentsAnyPath(rcs, path) ==
    [l \in {rcs[c].line : c \in {c \in 1..Len(rcs) : rcs[c].line # 0}} |->
        SelectSeq([c \in 1..Len(rcs) |-> c], LAMBDA c : rcs[c].line = l)]
CommentsOfFile(rcs, path) ==
    [l \in {rcs[c].line : c \in {c \in 1..Len(rcs) : rcs[c].path = path /\ rcs[c].line # 0}} |->
        SelectSeq([c \in 1..Len(rcs) |-> c],
                  LAMBDA c : rcs[c].path = path /\ rcs[c].line = l)]

\* Lines 220-221: the open code block is closed before the comments
CloseLines(cb) == IF cb # "" THEN <<Line("close", "<fence>", 0, 0)>> ELSE <<>>

\* Lines 233-234: and opened again after them, with its own opening line
ReopenNothing(cb) == <<>>
ReopenLines(cb) == IF cb # "" THEN <<Line("reopen", cb, 0, 0)>> ELSE <<>>

\* Lines 222-231: the three block-quoted entries of each comment of the line
QuoteLines(cs, l) ==
    Concat([k \in 1..Len(cs) |->
              <<Line("quote_hr", "> ---", cs[k], l), Line("quote_h", "> ####", cs[k], l),
                Line("quote_body", "> body", cs[k], l)>>])

\* Lines 241-263: what one item of the activity list renders to
RenderedEvents == {"labeled", "assigned", "referenced", "closed", "reopened"}

ItemLines(item, id) ==
    IF item.kind # "event" /\ item.body = "" THEN <<>>
    ELSE IF item.kind # "event"
      THEN <<Line("h4", item.kind, id, item.created_at), Line("p_item", item.body, id, 0)>>
    ELSE IF item.event \in RenderedEvents
      THEN <<Line("h4", item.event, id, item.created_at)>>
    ELSE <<>>

\* ---- the inputs build_markdown is run on
Titles == {"A", "B"}
States == {"open", "closed"}
Times == 1..2
Bodies == {"", "text"}
EventKinds == RenderedEvents \cup {"subscribed"}
FilePaths == {"a.md", "b.md"}

\* An aggregated issue. 'reviews' is a key of the record only when get_json
\* added it (line 97), which it does exactly for a pull request.
Issue(number, title, state, pr, files, rcs, cs, es, rs) ==
    [number |-> number, title |-> title, state |-> state, pull_request |-> pr,
     files |-> files, review_comments |-> rcs, comments |-> cs, events |-> es,
     reviews |-> rs]

HasReviewsKey(issue) == issue.pull_request

File(md, path, contents) == [name_md |-> md, path |-> path, contents |-> contents]

Item(kind, t, body, event) == [kind |-> kind, created_at |-> t, body |-> body, event |-> event]

CommentItems == {Item("comment", t, b, "") : t \in Times, b \in Bodies}
EventItems == {Item("event", t, "", e) : t \in Times, e \in EventKinds}
ReviewItems == {Item("review", t, b, "") : t \in Times, b \in Bodies}

\* A review comment: its path and its line, 0 for a null line.
ReviewComments == {[path |-> p, line |-> l] : p \in FilePaths, l \in 0..(MaxLines + 1)}

\* Several issues with distinct numbers in any order, nothing attached to them.
TocInputs ==
    UNION {
      {[k \in 1..n |-> Issue(f[k][1], f[k][2], f[k][3], f[k][4], <<>>, <<>>, <<>>, <<>>, <<>>)] :
          f \in {g \in [1..n -> (1..(MaxTocIssues + 1)) \X Titles \X States \X BOOLEAN] :
                   \A a, b \in 1..n : a # b => g[a][1] # g[b][1]}} :
      n \in 0..MaxTocIssues}

\* One pull request with one changed Markdown file and review comments.
FileInputs ==
    {<<Issue(1, "A", "open", TRUE, <<File(TRUE, "a.md", contents)>>, rcs, <<>>, <<>>, <<>>)>> :
        contents \in SeqsUpTo(LineTexts, MaxLines),
        rcs \in SeqsUpTo(ReviewComments, MaxReviewComments)}

\* One pull request with two changed files, the first a Markdown file or not.
TwoFileInputs ==
    {<<Issue(1, "A", "open", TRUE,
             <<File(md, "b.md", <<"text">>), File(TRUE, "a.md", <<"<fence>py", "text">>)>>,
             rcs, <<>>, <<>>, <<>>)>> :
        md \in BOOLEAN, rcs \in SeqsUpTo(ReviewComments, 1)}

\* One issue or pull request with comments, events and reviews.
FeedInputs ==
    UNION { UNION { UNION {
      {<<Issue(1, "A", "open", pr, <<>>, <<>>, cs, es, rs)>> :
          cs \in [1..a -> CommentItems], es \in [1..b -> EventItems],
          rs \in [1..c -> ReviewItems]} :
      c \in 0..(IF pr THEN MaxFeed - a - b ELSE 0)} :
      b \in 0..(MaxFeed - a)} :
      a \in 0..MaxFeed, pr \in BOOLEAN}

InitRender ==
    /\ IdleFetch
    /\ IdleRun
    /\ IdleImages
    /\ \/ ISSUE = 0 /\ issues \in TocInputs \cup FileInputs \cup TwoFileInputs \cup FeedInputs
       \/ /\ ISSUE \in 1..(MaxTocIssues + 1)
          /\ issues \in {<<Issue(ISSUE, t, s, pr, <<>>, <<>>, <<>>, <<>>, <<>>)>> :
                            t \in Titles, s \in States, pr \in BOOLEAN}
    /\ rpc = "title"
    /\ lines = <<>>
    /\ ri = 0
    /\ fi = 0
    /\ ln = 0
    /\ codeblock = ""
    /\ anchored = <<>>
    /\ feedItems = <<>>
    /\ fk = 0
    /\ is_first_item = TRUE

\* Line 175: the issue loop goes to the issue at position k, or the function
\* returns the joined lines.
AfterIssue(k) ==
    IF k <= Len(issues)
      THEN rpc' = "issue" /\ ri' = k
      ELSE rpc' = "done" /\ ri' = ri

\* Lines 188-189: the file loop goes to the next file from index k on whose name
\* ends in '.md', or runs out and the activity feed follows.
AfterFile(issue, k) ==
    LET md == {n \in k..Len(issue.files) : issue.files[n].name_md}
    IN IF md = {}
         THEN rpc' = "feed" /\ fi' = fi
         ELSE rpc' = "file" /\ fi' = CHOOSE n \in md : \A o \in md : n <= o

\* Lines 169-171
RenderTitle ==
    /\ rpc = "title"
    /\ IF ISSUE = 0
         THEN /\ lines' = <<Line("h1", "Issues", 0, 0)>>
              /\ IF issues # <<>>
                   THEN rpc' = "toc" /\ ri' = 1
                   ELSE AfterIssue(1)
         ELSE /\ lines' = lines
              /\ AfterIssue(1)
    /\ UNCHANGED <<issues, fi, ln, codeblock, anchored, feedItems, fk, is_first_item,
                   fetchVars, runVars, imageVars>>

\* Lines 172-174: one entry of the table of contents
RenderTocEntry ==
    /\ rpc = "toc"
    /\ LET issue == SortedIssues[ri]
       IN lines' = lines \o <<Line("toc", issue.title, issue.number, issue.number),
                               Line("blank", "", 0, 0)>>
    /\ IF ri < Len(issues)
         THEN rpc' = "toc" /\ ri' = ri + 1
         ELSE AfterIssue(1)
    /\ UNCHANGED <<issues, fi, ln, codeblock, anchored, feedItems, fk, is_first_item,
                   fetchVars, runVars, imageVars>>

\* Lines 176-187: the issue's header, the two paragraphs, the Files header
RenderIssueHead ==
    /\ rpc = "issue"
    /\ LET issue == SortedIssues[ri]
           head == <<HeaderLine(issue.number, issue.title, issue.state,
                                IssueLink(issue.number)),
                     Line("p_meta", "", issue.number, 0),
                     Line("p_body", "", issue.number, 0)>>
       IN IF issue.pull_request
            THEN /\ lines' = lines \o head \o <<Line("h2_files", "Files", 0, 0)>>
                 /\ AfterFile(issue, 1)
            ELSE /\ lines' = lines \o head
                 /\ rpc' = "feed"
                 /\ fi' = fi
    /\ UNCHANGED <<issues, ri, ln, codeblock, anchored, feedItems, fk, is_first_item,
                   fetchVars, runVars, imageVars>>

\* Lines 190-209 for a file named *.md; a file without lines ends here (235)
RenderFileStart ==
    /\ rpc = "file"
    /\ LET issue == SortedIssues[ri]
           file == issue.files[fi]
       IN /\ anchored' = CommentsOfFile(issue.review_comments, file.path)
          /\ codeblock' = ""
          /\ IF file.contents = <<>>
               THEN /\ lines' = lines \o <<Line("p_path", file.path, 0, 0),
                                           Line("hr", "---", 0, 0)>>
                    /\ ln' = ln
                    /\ AfterFile(issue, fi + 1)
               ELSE /\ lines' = Append(lines, Line("p_path", file.path, 0, 0))
                    /\ ln' = 1
                    /\ rpc' = "line"
                    /\ fi' = fi
    /\ UNCHANGED <<issues, ri, feedItems, fk, is_first_item, fetchVars, runVars, imageVars>>

\* Lines 210-235: one line of the file, with the comments anchored to it
RenderFileLine ==
    /\ rpc = "line"
    /\ LET issue == SortedIssues[ri]
           file == issue.files[fi]
           text == file.contents[ln]
           cb == IF StartsWithFence(text)
                   THEN (IF codeblock = "" THEN text ELSE "")
                   ELSE codeblock
           out == <<Line("src", text, ln, 0)>>
                     \o (IF ln \in DOMAIN anchored
                           THEN CloseLines(cb) \o QuoteLines(anchored[ln], ln)
                                    \o ReopenLines(cb)
                           ELSE <<>>)
       IN /\ codeblock' = cb
          /\ IF ln < Len(file.contents)
               THEN /\ lines' = lines \o out
                    /\ ln' = ln + 1
                    /\ UNCHANGED <<rpc, fi>>
               ELSE /\ lines' = lines \o out \o <<Line("hr", "---", 0, 0)>>
                    /\ ln' = ln
                    /\ AfterFile(issue, fi + 1)
    /\ UNCHANGED <<issues, ri, anchored, feedItems, fk, is_first_item,
                   fetchVars, runVars, imageVars>>

\* Lines 237-240: the Comments header, then the sorted activity list; the
\* lookup issue['reviews'] raises KeyError when the record has no such key.
RenderFeedStart ==
    /\ rpc = "feed"
    /\ lines' = Append(lines, Line("h2_comments", "Comments", 0, 0))
    /\ LET issue == SortedIssues[ri]
       IN IF ~HasReviewsKey(issue)
            THEN /\ rpc' = "error"
                 /\ UNCHANGED <<ri, feedItems, fk, is_first_item>>
            ELSE /\ feedItems' = FeedOrder(issue)
                 /\ is_first_item' = TRUE
                 /\ IF Merged(issue) = <<>>
                      THEN /\ AfterIssue(ri + 1)
                           /\ fk' = fk
                      ELSE /\ rpc' = "item"
                           /\ fk' = 1
                           /\ ri' = ri
    /\ UNCHANGED <<issues, fi, ln, codeblock, anchored, fetchVars, runVars, imageVars>>

\* Lines 240-272: one item of the activity list
RenderFeedItem ==
    /\ rpc = "item"
    /\ LET issue == SortedIssues[ri]
           id == feedItems[fk]
           items == ItemLines(Merged(issue)[id], id)
       IN /\ IF items # <<>>
               THEN /\ is_first_item' = FALSE
                    /\ lines' = lines
                                  \o (IF is_first_item THEN <<>> ELSE <<Line("hr", "---", 0, 0)>>)
                                  \o items
               ELSE UNCHANGED <<is_first_item, lines>>
          /\ IF fk < Len(feedItems)
               THEN /\ fk' = fk + 1
                    /\ UNCHANGED <<rpc, ri>>
               ELSE /\ fk' = fk
                    /\ AfterIssue(ri + 1)
    /\ UNCHANGED <<issues, fi, ln, codeblock, anchored, feedItems,
                   fetchVars, runVars, imageVars>>

NextRender ==
    \/ RenderTitle
    \/ RenderTocEntry
    \/ RenderIssueHead
    \/ RenderFileStart
    \/ RenderFileLine
    \/ RenderFeedStart
    \/ RenderFeedItem

SpecRender == InitRender /\ [][NextRender]_vars

\* ------------------------------------------------------------ claims: Spec
\* get_json has returned its list (the run went on, or ended, after it).
GetJsonReturned ==
    \/ pc \in {"images", "save_json", "build_markdown", "save_md", "done"}
    \/ pc = "error" /\ abortedIn # "get_json"

IsApiCall(r) == r.kind # "image"

\* The calls the aggregator owes issue k, from the issue's own fields.
DetailCalls(k, cs) ==
    LET RECURSIVE From(_)
        From(n) ==
            IF n > Len(cs) THEN <<>>
            ELSE IF cs[n].total_count # 0
              THEN <<Key("comment_reactions", k, n)>> \o From(n + 1)
              ELSE From(n + 1)
    IN From(1)

IssueBlock(k) ==
    <<Key("reactions", k, 0), Key("comments", k, 0)>>
        \o DetailCalls(k, data[k].comments)
        \o <<Key("events", k, 0)>>
        \o (IF data[k].pull_request
              THEN <<Key("reviews", k, 0), Key("review_comments", k, 0), Key("files", k, 0)>>
                       \o [n \in 1..data[k].files |-> Key("contents", k, n)]
              ELSE <<>>)

ExpectedCalls ==
    <<Key("issues", 0, 0)>> \o Concat([k \in 1..Len(data) |-> IssueBlock(k)])

\* C2 (as amended): a run that aborts in get_json or download_embedded_images
\* has written neither the JSON nor the Markdown file; a run that aborts in
\* build_markdown has written the JSON file and not the Markdown file.
C2_OutputOnAbort ==
    pc = "error" => ~mdFile /\ (jsonFile <=> abortedIn = "build_markdown")

\* C2 as stated: whenever a run aborts on any failure, rendering included,
\* neither the JSON nor the Markdown file has been written.
C2_Original ==
    pc = "error" => ~jsonFile /\ ~mdFile

\* The renderer fails on a missing 'title' of a fully enriched pull request.
C2_Witness ==
    /\ pc = "error"
    /\ abortedIn = "build_markdown"
    /\ jsonFile
    /\ Len(data) >= 1
    /\ \A k \in 1..Len(data) : "reviews" \in data[k].got

\* C3: once a non-success HTTP response has been received the run is in its
\* error state, and no step issues another request (no retry, no further page,
\* issue, enrichment call or image).
C3_NoRequestAfterFailure ==
    /\ [](failed => pc = "error")
    /\ [][failed => last' = last /\ requests' = requests]_vars

\* A second page of comments fails while another issue is still to be enriched.
C3_Witness ==
    /\ failed
    /\ last.kind = "comments"
    /\ last.page = 2
    /\ i < Len(data)

\* C10: when get_json has returned, the API calls made are the base fetch and
\* then, issue by issue in list order, reactions, comments, one detail call per
\* comment with a nonzero total_count, events and, for a pull request only,
\* reviews, review comments, files and each file's content; a call's further
\* pages directly follow its previous page.
C10_RequestOrder ==
    /\ [](GetJsonReturned => SelectSeq(requests, IsApiCall) = ExpectedCalls)
    /\ [][last' # last /\ last'.page > 1 =>
            /\ Key(last'.kind, last'.issue, last'.sub) = Key(last.kind, last.issue, last.sub)
            /\ last'.page = last.page + 1]_vars

C10_Witness ==
    /\ pc = "images"
    /\ Len(data) = 2
    /\ \E k \in 1..2 : ~data[k].pull_request
    /\ \E k \in 1..2 : data[k].pull_request /\ data[k].files >= 1
    /\ \E k \in 1..2 :
          /\ Len(data[k].comments) = 2
          /\ data[k].comments[1].total_count = 0
          /\ data[k].comments[2].total_count # 0

\* ----------------------------------------------------- claims: SpecImages
\* base64 read back: the 6-bit value of a character, and the bytes of a text.
B64Value(ch) ==
    IF ch >= 65 /\ ch <= 90 THEN ch - 65
    ELSE IF ch >= 97 /\ ch <= 122 THEN ch - 97 + 26
    ELSE IF ch >= 48 /\ ch <= 57 THEN ch - 48 + 52
    ELSE IF ch = 43 THEN 62
    ELSE IF ch = 47 THEN 63
    ELSE 0

RECURSIVE B64Decode(_)
B64Decode(cs) ==
    IF Len(cs) < 4 THEN <<>>
    ELSE LET q == B64Value(cs[1]) * 262144 + B64Value(cs[2]) * 4096
                    + B64Value(cs[3]) * 64 + B64Value(cs[4])
             bytes == <<q \div 65536, (q \div 256) % 256, q % 256>>
             keep == IF cs[3] = 61 THEN 1 ELSE IF cs[4] = 61 THEN 2 ELSE 3
         IN SubSeq(bytes, 1, keep) \o B64Decode(SubSeq(cs, 5, Len(cs)))

\* A file name split at its first '.': the encoded part and the extension.
FirstDot(name) == CHOOSE k \in 1..Len(name) : name[k] = 46 /\ \A m \in 1..(k - 1) : name[m] # 46

\* name is base64(path) + '.' + the path's extension.
NamesPath(name, path) ==
    /\ \E k \in 1..Len(name) : name[k] = 46
    /\ LET d == FirstDot(name)
           ext == SubSeq(name, d + 1, Len(name))
       IN /\ B64Decode(SubSeq(name, 1, d - 1)) = path
          /\ \A k \in 1..Len(ext) : ext[k] # 46
          /\ Len(ext) <= Len(path)
          /\ SubSeq(path, Len(path) - Len(ext) + 1, Len(path)) = ext
          /\ Len(ext) < Len(path) => path[Len(path) - Len(ext)] = 46
          /\ Len(ext) = Len(path) => \A k \in 1..Len(path) : path[k] # 46

SeenPaths == {m[2] : m \in seen}

\* C8 (as amended): after a successful download_embedded_images the folder
\* holds exactly one file per unique matched path: each matched path has its
\* file, named base64(path) + '.' + extension, each file names a matched path,
\* distinct paths have distinct files, and matches that share a path (the same
\* URL again, or the same path on the other subdomain) share one file.
C8_OneFilePerPath ==
    ipc = "done" =>
        /\ \A path \in SeenPaths : \E name \in folder : NamesPath(name, path)
        /\ \A name \in folder : \E path \in SeenPaths : NamesPath(name, path)
        /\ Cardinality(folder) = Cardinality(SeenPaths)

\* C8 as stated: one file per unique matched URL, distinct URLs giving
\* distinct files.
C8_Original ==
    ipc = "done" => Cardinality(folder) = Cardinality(seen)

\* Two matches with one path, one on each subdomain, left one file.
C8_Witness ==
    /\ ipc = "done"
    /\ count = 2
    /\ Cardinality(seen) = 2
    /\ Cardinality(folder) = 1
    /\ \E name \in folder : Len(name) > 5

\* ----------------------------------------------------- claims: SpecRender
\* The last position before p (or at p) of a line whose kind is in ts, 0 if none.
LastBefore(p, ts) ==
    LET c == {q \in 1..p : lines[q].t \in ts}
    IN IF c = {} THEN 0 ELSE CHOOSE q \in c : \A o \in c : o <= q

Positions(ts) == {p \in 1..Len(lines) : lines[p].t \in ts}

\* The issue whose section position p lies in: the one its header names.
IssueAt(p) ==
    LET h == LastBefore(p, {"h2"})
    IN CHOOSE issue \in {issues[k] : k \in 1..Len(issues)} : issue.number = lines[h].n

\* The changed file whose section position p lies in: the one its path line names.
FileAt(p) ==
    LET f == LastBefore(p, {"p_path"})
        fs == IssueAt(p).files
    IN CHOOSE file \in {fs[k] : k \in 1..Len(fs)} : file.path = lines[f].s

\* Position p lies in an activity feed: the nearest header above it is 'Comments'.
InFeed(p) ==
    LET h == LastBefore(p, {"h2", "h2_files", "h2_comments"})
    IN h # 0 /\ lines[h].t = "h2_comments"

\* In every activity feed written so far a rule stands exactly between two
\* consecutive entries, never before the first, and no entry has an empty body.
FeedSeparators ==
    /\ \A p \in Positions({"hr"}) :
          InFeed(p) =>
              /\ lines[p - 1].t \in {"h4", "p_item"}
              /\ p < Len(lines)
              /\ lines[p + 1].t = "h4"
    /\ \A p \in Positions({"h4"}) : lines[p - 1].t \in {"h2_comments", "hr"}
    /\ \A p \in Positions({"p_item"}) : lines[p - 1].t = "h4" /\ lines[p].s # ""
    /\ \A p \in Positions({"h2_comments"}) :
          LET entries == {q \in Positions({"h4"}) : LastBefore(q, {"h2_comments"}) = p}
              rules == {q \in Positions({"hr"}) : LastBefore(q, {"h2_comments"}) = p}
          IN Cardinality(rules) = Max(0, Cardinality(entries) - 1)

\* C4: every issue, pull request or not, gets its activity feed rendered (the
\* renderer does not fail on it), with a rule exactly between consecutive
\* entries, max(0, k-1) rules for k entries, none for an issue without
\* comments and events.
C4_FeedOfEveryIssue ==
    /\ rpc # "error"
    /\ FeedSeparators

\* The same for the issues that are pull requests, which the renderer gets through.
C4_FeedOfPullRequests ==
    /\ rpc = "error" => ~SortedIssues[ri].pull_request
    /\ FeedSeparators

\* A code block is open after line n of the file: an odd number of its first n
\* lines start with the fence.
OpenAfter(contents, n) ==
    Cardinality({k \in 1..n : StartsWithFence(contents[k])}) % 2 = 1

\* The same, read off the output: the lines of the section above position p.
OutputOpenBefore(p) ==
    LET f == LastBefore(p, {"p_path"})
    IN Cardinality({q \in (f + 1)..(p - 1) : StartsWithFence(lines[q].s)}) % 2 = 1

QuoteKinds == {"quote_hr", "quote_h", "quote_body"}

\* The first position after p that holds no block-quoted comment line.
AfterQuotes(p) ==
    CHOOSE q \in (p + 1)..(Len(lines) + 1) :
        /\ q <= Len(lines) => lines[q].t \notin QuoteKinds
        /\ \A o \in (p + 1)..(q - 1) : lines[o].t \in QuoteKinds

\* C5: where comments follow a file line after which a code block is open, a
\* closing fence stands before them and the block's own opening line after
\* them; where none is open no fence line is added; and every line of the file
\* is inside a code block in the output exactly if it is in the file.
C5_FenceParity ==
    /\ \A p \in Positions({"src"}) :
          LET n == lines[p].n
              contents == FileAt(p).contents
              opened == CHOOSE k \in 0..n :
                          /\ k # 0 => StartsWithFence(contents[k])
                          /\ \A o \in (k + 1)..n : ~StartsWithFence(contents[o])
          IN /\ lines[p].s = contents[n]
             /\ OutputOpenBefore(p) = OpenAfter(contents, n - 1)
             /\ (p < Len(lines) /\ lines[p + 1].t \in QuoteKinds \cup {"close"}) =>
                   IF OpenAfter(contents, n)
                     THEN /\ lines[p + 1].t = "close"
                          /\ lines[p + 1].s = "<fence>"
                          /\ lines[p + 2].t = "quote_hr"
                          /\ AfterQuotes(p + 1) <= Len(lines)
                          /\ lines[AfterQuotes(p + 1)].t = "reopen"
                          /\ lines[AfterQuotes(p + 1)].s = contents[opened]
                     ELSE /\ lines[p + 1].t = "quote_hr"
                          /\ AfterQuotes(p) <= Len(lines) =>
                                lines[AfterQuotes(p)].t \in {"src", "hr"}
    /\ \A p \in Positions({"close"}) : lines[p - 1].t = "src"
    /\ \A p \in Positions({"reopen"}) : lines[p - 1].t = "quote_body"

\* A comment was written after the opening line of a code block, and a line of
\* the file follows.
C5_Witness ==
    /\ rpc = "done"
    /\ \E p \in Positions({"reopen"}) :
          /\ lines[p].s = "<fence>py"
          /\ p < Len(lines)
          /\ lines[p + 1].t = "src"
          /\ lines[p + 1].s = "text"

\* How often comment c of the pull request is written in the section of file.
TimesQuoted(issue, file, c) ==
    Cardinality({p \in Positions({"quote_body"}) :
                   /\ IssueAt(p).number = issue.number
                   /\ FileAt(p).path = file.path
                   /\ lines[p].n = c})

\* Every comment written stands after the file line it is anchored to, after
\* at most a closing fence and the comments before it in review_comments, as
\* the three block-quoted lines of one comment.
QuotesInPlace ==
    \A p \in Positions({"quote_body"}) :
        LET q == LastBefore(p, {"src"})
            c == lines[p].n
        IN /\ q # 0
           /\ lines[q].n = IssueAt(p).review_comments[c].line
           /\ \A o \in (q + 1)..p : lines[o].t \in QuoteKinds \cup {"close"}
           /\ \A o \in (q + 2)..p : lines[o].t \in QuoteKinds
           /\ lines[p - 1].t = "quote_h" /\ lines[p - 1].n = c
           /\ lines[p - 2].t = "quote_hr" /\ lines[p - 2].n = c
           /\ \A o \in (q + 1)..(p - 1) : lines[o].t = "quote_body" => lines[o].n < c

PullRequests == {issues[k] : k \in {k \in 1..Len(issues) : issues[k].pull_request}}

MarkdownFiles(issue) ==
    {issue.files[k] : k \in {k \in 1..Len(issue.files) : issue.files[k].name_md}}

\* C6 (as amended): in the section of a changed *.md file every review comment
\* on the file's path whose line is a line number of the file (1 up to its
\* number of lines) is written exactly once, directly after that line (after
\* the closing fence, if any), comments of one line in review_comments order;
\* a comment of another path, with a null line, or with a line beyond the
\* file's last line is not written in the section.
C6_CommentsAtLines ==
    rpc = "done" =>
        /\ QuotesInPlace
        /\ \A issue \in PullRequests : \A file \in MarkdownFiles(issue) :
              \A c \in 1..Len(issue.review_comments) :
                  LET rc == issue.review_comments[c]
                  IN TimesQuoted(issue, file, c) =
                        IF rc.path = file.path /\ rc.line # 0 /\ rc.line <= Len(file.contents)
                          THEN 1 ELSE 0

\* C6 as stated: every review comment on the file's path with a line that is
\* not null is written exactly once, and no other comment is.
C6_Original ==
    rpc = "done" =>
        /\ QuotesInPlace
        /\ \A issue \in PullRequests : \A file \in MarkdownFiles(issue) :
              \A c \in 1..Len(issue.review_comments) :
                  LET rc == issue.review_comments[c]
                  IN TimesQuoted(issue, file, c) =
                        IF rc.path = file.path /\ rc.line # 0 THEN 1 ELSE 0

\* Two comments were written after the second line of a file.
C6_Witness ==
    /\ rpc = "done"
    /\ \E p, q \in Positions({"quote_body"}) :
          /\ p < q
          /\ lines[p].m = 2
          /\ lines[q].m = 2
          /\ LastBefore(p, {"src"}) = LastBefore(q, {"src"})

\* The issue ordinal of position p: how many issue headers stand above it.
SectionOf(p) == Cardinality({q \in 1..p : lines[q].t = "h2"})

\* C7: the entries of an issue's activity feed stand in ascending created_at
\* order, and entries with equal created_at in the order of the merged list
\* comments + events + reviews.
C7_FeedOrder ==
    \A p, q \in Positions({"h4"}) :
        (p < q /\ SectionOf(p) = SectionOf(q)) =>
            /\ lines[p].m = Merged(IssueAt(p))[lines[p].n].created_at
            /\ lines[q].m = Merged(IssueAt(q))[lines[q].n].created_at
            /\ lines[p].m <= lines[q].m
            /\ lines[p].m = lines[q].m => lines[p].n < lines[q].n

\* An event older than a comment was written before it.
C7_Witness ==
    /\ rpc = "done"
    /\ \E p, q \in Positions({"h4"}) :
          /\ p < q
          /\ lines[p].n > lines[q].n
          /\ lines[p].m < lines[q].m

TocLines == SelectSeq(lines, LAMBDA l : l.t = "toc")

Headers2 == SelectSeq(lines, LAMBDA l : l.t = "h2")

\* C9: in a rendering of the full repository the table of contents and the
\* issue headers list the same issues in the same ascending-number order; the
\* entry of issue K with title T links to #K, and exactly one header carries
\* the anchor K, the header of that issue.
C9_TocMatchesAnchors ==
    (rpc = "done" /\ ISSUE = 0) =>
        /\ Len(TocLines) = Len(issues)
        /\ Len(Headers2) = Len(issues)
        /\ \A k \in 1..Len(issues) :
              /\ TocLines[k].m = TocLines[k].n
              /\ Headers2[k].m = TocLines[k].m
              /\ Headers2[k].n = TocLines[k].n
              /\ Headers2[k].s = TocLines[k].s
              /\ \E o \in 1..Len(issues) :
                    /\ issues[o].number = Headers2[k].n
                    /\ issues[o].title = Headers2[k].s
                    /\ issues[o].state = Headers2[k].x
              /\ Cardinality({p \in Positions({"h2"}) : lines[p].m = issues[k].number}) = 1
        /\ \A a, b \in 1..Len(issues) : a < b => TocLines[a].n < TocLines[b].n

\* Two issues given in descending order of their numbers were rendered.
C9_Witness ==
    /\ rpc = "done"
    /\ ISSUE = 0
    /\ Len(issues) = 2
    /\ issues[1].number > issues[2].number
    /\ issues[1].title # issues[2].title

\* ------------------------------------------------------ claims: SpecFetch
\* C1: a chain of N >= 1 successful pages returns the concatenation of the N
\* payloads in page order, after exactly the N requests for pages 1..N, each once.
C1_ChainConcat ==
    fpc = "returned" =>
        /\ Len(served) >= 1
        /\ result = Concat(served)
        /\ fRequests = [p \in 1..Len(served) |-> p]

C1_Witness ==
    /\ fpc = "returned"
    /\ Len(served) = MaxPages
    /\ \A p \in 1..Len(served) : served[p] # <<>>
    /\ served[1] # served[2]
====
